---- MODULE Spec2Model ----
(***************************************************************************)
(* State machine of basics/05_practical_api_client.py: APIClient (request  *)
(* routing over a simulated backend, validation, session) and UserManager  *)
(* (users cache, lazy refresh, filtering, summary).                        *)
(*                                                                         *)
(* Python values are modelled as follows: a str that the code inspects     *)
(* (endpoints, emails) is a sequence of one-character strings; an opaque   *)
(* str is a TLA+ string; a dict is a function from its keys; a list is a   *)
(* sequence; None is the value None below.  A call is one atomic step (the *)
(* program is single threaded and synchronous) that records the operation, *)
(* its arguments and its outcome (return value or raised exception).       *)
(***************************************************************************)
EXTENDS Integers, Sequences, FiniteSets, TLC

VARIABLES
    session_data,    \* APIClient.session_data
    request_count,   \* APIClient._request_count
    request_lines,   \* number of "[METHOD] url" lines printed by _make_request
    users_cache,     \* UserManager.users_cache
    last_fetch,      \* UserManager.last_fetch
    clock,           \* what datetime.now() returns
    transport,       \* what answers _make_request: "simulated" is the source's backend
    op,              \* the last operation called
    args,            \* its arguments
    ret,             \* its outcome
    sent             \* the number of requests it dispatched

vars == <<session_data, request_count, request_lines, users_cache, last_fetch,
          clock, transport, op, args, ret, sent>>

\* Bounds of the model.
MaxRequests == 3
MaxClock == 1

\* ---------------------------------------------------------------- values

None == [type |-> "NoneType"]

Return(v) == [kind |-> "return", val |-> v]
Raise(t, msg) == [kind |-> "raise", exc |-> t, msg |-> msg]

\* dict.get(k, default)
Get(d, k, default) == IF k \in DOMAIN d THEN d[k] ELSE default

\* d.get(k) == lit for a str literal lit: None, the default, equals no str
GetEquals(d, k, lit) == k \in DOMAIN d /\ d[k] = lit

\* d[k] = v
DictSet(d, k, v) == [x \in (DOMAIN d) \cup {k} |-> IF x = k THEN v ELSE d[x]]

\* `c in s` for a one-character c
Contains(s, c) == \E i \in 1..Len(s) : s[i] = c

\* s.startswith(p)
StartsWith(s, p) == Len(s) >= Len(p) /\ SubSeq(s, 1, Len(p)) = p

\* s.find(c) + 1 when c occurs in s
Find(s, c) == CHOOSE i \in 1..Len(s) : s[i] = c /\ \A j \in 1..(i - 1) : s[j] # c

\* s.split(sep) for a one-character sep
RECURSIVE Split(_, _)
Split(s, sep) ==
    IF ~Contains(s, sep) THEN <<s>>
    ELSE LET i == Find(s, sep)
         IN <<SubSeq(s, 1, i - 1)>> \o Split(SubSeq(s, i + 1, Len(s)), sep)

\* truth value of an Optional[Dict]
Truthy(data) == data # None /\ DOMAIN data # {}

\* datetime.now() and datetime.isoformat()
Now(t) == [ticks |-> t]
IsoFormat(dt) == <<"iso", dt.ticks>>

\* ---------------------------------------------------------------- literals

ExampleCom == <<"e", "x", "a", "m", "p", "l", "e", ".", "c", "o", "m">>
AliceEmail == <<"a", "l", "i", "c", "e", "@">> \o ExampleCom
BobEmail == <<"b", "o", "b", "@">> \o ExampleCom
CharlieEmail == <<"c", "h", "a", "r", "l", "i", "e", "@">> \o ExampleCom
DavidEmail == <<"d", "a", "v", "i", "d", "@">> \o ExampleCom
MissingEmail == <<"m", "i", "s", "s", "i", "n", "g", "@",
                  "n", "o", "w", "h", "e", "r", "e", ".", "c", "o", "m">>

UsersPath == <<"/", "u", "s", "e", "r", "s">>
AuthPath == <<"/", "a", "u", "t", "h">>
LoginPath == AuthPath \o <<"/", "l", "o", "g", "i", "n">>

BaseUrl == "https://api.example.com"

FixedUsers ==
    << [id |-> 1, name |-> "Alice", email |-> AliceEmail, active |-> TRUE],
       [id |-> 2, name |-> "Bob", email |-> BobEmail, active |-> FALSE],
       [id |-> 3, name |-> "Charlie", email |-> CharlieEmail, active |-> TRUE] >>

\* ---------------------------------------------------------------- inputs

Usernames == {"admin", "guest"}
Passwords == {"secret", "wrong"}
Names == {"David"}
\* emails offered to create_user and find_user_by_email
Emails ==
    { DavidEmail,                              \* valid
      <<"a", "@", "b", ".", "c", "@", "d">>,   \* valid: "." before a second "@"
      <<"d", "a", "v", "i", "d">>,             \* no "@"
      <<"a", "@", "b">>,                       \* no "." after "@"
      <<"a", ".", "b", "@", "c">>,             \* "." only before "@"
      <<"a", "@", "b", "@", "c", ".", "d">>,   \* "." only after a second "@"
      <<>> }                                   \* empty
Lookups == {AliceEmail, BobEmail, MissingEmail, DavidEmail}

\* requests offered to _make_request
OrdersPath == <<"/", "o", "r", "d", "e", "r", "s">>
Paths == {UsersPath, UsersPath \o <<"/", "5">>, LoginPath, AuthPath, OrdersPath, <<>>}
Methods == {"GET", "POST"}
Payloads ==
    { None,
      [name |-> "David", email |-> DavidEmail],
      [name |-> "David"],
      [username |-> "admin", password |-> "secret"],
      [username |-> "admin", password |-> "wrong"] }

\* ---------------------------------------------------------------- APIClient

\* The program's state as one record, for the operators below.
State ==
    [session_data |-> session_data, request_count |-> request_count,
     request_lines |-> request_lines, users_cache |-> users_cache,
     last_fetch |-> last_fetch, transport |-> transport]

Result(s, out) == [state |-> s, out |-> out]

\* HandleUsersEndpoint numbering the new user after the fixed list's length
HandleUsersEndpoint_IdFromLength(s, endpoint, method, data, now) ==
    IF method = "GET" /\ endpoint = UsersPath
    THEN Result(s, [status |-> 200, data |-> FixedUsers])
    ELSE IF method = "POST" /\ endpoint = UsersPath /\ Truthy(data)
    THEN Result(s, [status |-> 201,
                    data |-> [id |-> Len(FixedUsers),
                              name |-> Get(data, "name", None),
                              email |-> Get(data, "email", None),
                              active |-> TRUE,
                              created_at |-> IsoFormat(Now(now))]])
    ELSE Result(s, [error |-> "Invalid users endpoint", status |-> 400])

HandleUsersEndpoint(s, endpoint, method, data, now) ==
    IF method = "GET" /\ endpoint = UsersPath
    THEN Result(s, [status |-> 200, data |-> FixedUsers])
    ELSE IF method = "POST" /\ endpoint = UsersPath /\ Truthy(data)
    THEN Result(s, [status |-> 201,
                    data |-> [id |-> 999,
                              name |-> Get(data, "name", None),
                              email |-> Get(data, "email", None),
                              active |-> TRUE,
                              created_at |-> IsoFormat(Now(now))]])
    ELSE Result(s, [error |-> "Invalid users endpoint", status |-> 400])

\* HandleAuthEndpoint storing the token before it checks the credentials
HandleAuthEndpoint_TokenBeforeCheck(s, endpoint, method, data, now) ==
    IF method = "POST" /\ endpoint = LoginPath /\ Truthy(data)
    THEN LET username == Get(data, "username", None)
             password == Get(data, "password", None)
             token == <<"token_for_", username, "_", s.request_count>>
             s1 == [s EXCEPT !.session_data = DictSet(@, "token", token)]
         IN IF GetEquals(data, "username", "admin") /\ GetEquals(data, "password", "secret")
            THEN Result(s1, [status |-> 200,
                             data |-> [token |-> token, expires_in |-> 3600]])
            ELSE Result(s1, [error |-> "Invalid credentials", status |-> 401])
    ELSE Result(s, [error |-> "Invalid auth endpoint", status |-> 400])

\* HandleAuthEndpoint checking the username only
HandleAuthEndpoint_AnyPassword(s, endpoint, method, data, now) ==
    IF method = "POST" /\ endpoint = LoginPath /\ Truthy(data)
    THEN LET username == Get(data, "username", None)
         IN IF GetEquals(data, "username", "admin")
            THEN LET token == <<"token_for_", username, "_", s.request_count>>
                 IN Result([s EXCEPT !.session_data = DictSet(@, "token", token)],
                           [status |-> 200,
                            data |-> [token |-> token, expires_in |-> 3600]])
            ELSE Result(s, [error |-> "Invalid credentials", status |-> 401])
    ELSE Result(s, [error |-> "Invalid auth endpoint", status |-> 400])

HandleAuthEndpoint(s, endpoint, method, data, now) ==
    IF method = "POST" /\ endpoint = LoginPath /\ Truthy(data)
    THEN LET username == Get(data, "username", None)
             password == Get(data, "password", None)
         IN IF GetEquals(data, "username", "admin") /\ GetEquals(data, "password", "secret")
            THEN LET token == <<"token_for_", username, "_", s.request_count>>
                 IN Result([s EXCEPT !.session_data = DictSet(@, "token", token)],
                           [status |-> 200,
                            data |-> [token |-> token, expires_in |-> 3600]])
            ELSE Result(s, [error |-> "Invalid credentials", status |-> 401])
    ELSE Result(s, [error |-> "Invalid auth endpoint", status |-> 400])

\* MakeRequest without the increment of _request_count
MakeRequest_NoCount(s, endpoint, method, data, now) ==
    LET s1 == [s EXCEPT !.request_lines = @ + 1]
    IN IF StartsWith(endpoint, UsersPath)
       THEN HandleUsersEndpoint(s1, endpoint, method, data, now)
       ELSE IF StartsWith(endpoint, AuthPath)
       THEN HandleAuthEndpoint(s1, endpoint, method, data, now)
       ELSE Result(s1, [error |-> "Endpoint not found", status |-> 404])

\* MakeRequest routing on the whole path instead of its prefix
MakeRequest_ExactPath(s, endpoint, method, data, now) ==
    LET s1 == [s EXCEPT !.request_count = @ + 1, !.request_lines = @ + 1]
    IN IF endpoint = UsersPath
       THEN HandleUsersEndpoint(s1, endpoint, method, data, now)
       ELSE IF endpoint = LoginPath
       THEN HandleAuthEndpoint(s1, endpoint, method, data, now)
       ELSE Result(s1, [error |-> "Endpoint not found", status |-> 404])

\* APIClient._make_request over the simulated backend
MakeRequest(s, endpoint, method, data, now) ==
    LET s1 == [s EXCEPT !.request_count = @ + 1, !.request_lines = @ + 1]
    IN IF StartsWith(endpoint, UsersPath)
       THEN HandleUsersEndpoint(s1, endpoint, method, data, now)
       ELSE IF StartsWith(endpoint, AuthPath)
       THEN HandleAuthEndpoint(s1, endpoint, method, data, now)
       ELSE Result(s1, [error |-> "Endpoint not found", status |-> 404])

\* A transport that answers every request with a non-success status: the
\* backend the client is deployed over when it is not the simulated one.
FailingRequest(s, endpoint, method, data, now) ==
    Result([s EXCEPT !.request_count = @ + 1, !.request_lines = @ + 1],
           [error |-> "Service unavailable", status |-> 503])

\* self._make_request(...), bound to the transport of this client
Request(s, endpoint, method, data, now) ==
    IF s.transport = "simulated"
    THEN MakeRequest(s, endpoint, method, data, now)
    ELSE FailingRequest(s, endpoint, method, data, now)

\* IsValidEmail looking for the "@" only
IsValidEmail_AtOnly(email) == Contains(email, "@")

\* APIClient._is_valid_email
IsValidEmail(email) ==
    Contains(email, "@") /\ Contains(Split(email, "@")[2], ".")

\* the try body of APIClient.get_users
GetUsersTry(s, now) ==
    LET r == Request(s, UsersPath, "GET", None, now)
    IN IF Get(r.out, "status", None) = 200
       THEN Result(r.state, Return(Get(r.out, "data", <<>>)))
       ELSE Result(r.state, Raise("APIError", <<"Failed to get users", Get(r.out, "error", None)>>))

\* GetUsers without the except clause
GetUsers_NoCatch(s, now) == GetUsersTry(s, now)

\* APIClient.get_users: `except Exception` returns []
GetUsers(s, now) ==
    LET t == GetUsersTry(s, now)
    IN IF t.out.kind = "raise" THEN Result(t.state, Return(<<>>)) ELSE t

\* APIClient.create_user
CreateUser(s, name, email, now) ==
    IF ~IsValidEmail(email)
    THEN Result(s, Raise("ValueError", <<"Invalid email format", email>>))
    ELSE LET user_data == [name |-> name, email |-> email]
             r == Request(s, UsersPath, "POST", user_data, now)
         IN IF Get(r.out, "status", None) = 201
            THEN Result(r.state, Return(Get(r.out, "data", None)))
            ELSE Result(r.state, Raise("APIError", <<"Failed to create user", Get(r.out, "error", None)>>))

\* APIClient.login
Login(s, username, password, now) ==
    LET auth_data == [username |-> username, password |-> password]
        r == Request(s, LoginPath, "POST", auth_data, now)
    IN IF Get(r.out, "status", None) = 200
       THEN Result(r.state, Return(TRUE))
       ELSE Result(r.state, Return(FALSE))

\* APIClient.get_stats
GetStats(s) ==
    Result(s, Return([requests_made |-> s.request_count,
                      base_url |-> BaseUrl,
                      authenticated |-> "token" \in DOMAIN s.session_data,
                      session_data |-> s.session_data]))

\* ---------------------------------------------------------------- UserManager

\* RefreshUsers extending the cache with the fetched list
RefreshUsers_Extends(s, now) ==
    LET g == GetUsers(s, now)
    IN IF g.out.kind = "raise" THEN g
       ELSE Result([g.state EXCEPT !.users_cache = @ \o g.out.val, !.last_fetch = Now(now)],
                   Return(None))

\* UserManager.refresh_users
RefreshUsers(s, now) ==
    LET g == GetUsers(s, now)
    IN IF g.out.kind = "raise" THEN g
       ELSE Result([g.state EXCEPT !.users_cache = g.out.val, !.last_fetch = Now(now)],
                   Return(None))

\* LazyFill refreshing whatever the cache holds
LazyFill_Always(s, now) == RefreshUsers(s, now)

\* LazyFill refreshing also when the manager has never fetched
LazyFill_WhenNeverFetched(s, now) ==
    IF s.users_cache = <<>> \/ s.last_fetch = None
    THEN RefreshUsers(s, now) ELSE Result(s, Return(None))

\* `if not self.users_cache: self.refresh_users()`
LazyFill(s, now) ==
    IF s.users_cache = <<>> THEN RefreshUsers(s, now) ELSE Result(s, Return(None))

IsActive(user) == Get(user, "active", FALSE)

\* GetActiveUsers returning the cache unfiltered
GetActiveUsers_NoFilter(s, now) ==
    LET f == LazyFill(s, now)
    IN IF f.out.kind = "raise" THEN f
       ELSE Result(f.state, Return(f.state.users_cache))

\* UserManager.get_active_users
GetActiveUsers(s, now) ==
    LET f == LazyFill(s, now)
    IN IF f.out.kind = "raise" THEN f
       ELSE Result(f.state, Return(SelectSeq(f.state.users_cache, IsActive)))

\* the for loop of UserManager.find_user_by_email
RECURSIVE FirstWithEmail(_, _)
FirstWithEmail(users, email) ==
    IF users = <<>> THEN None
    ELSE IF Get(Head(users), "email", None) = email THEN Head(users)
    ELSE FirstWithEmail(Tail(users), email)

\* FindUserByEmail keeping the last match of the scan instead of the first
FindUserByEmail_LastMatch(s, email, now) ==
    LET f == LazyFill(s, now)
        users == f.state.users_cache
        hits == {i \in 1..Len(users) : Get(users[i], "email", None) = email}
    IN IF f.out.kind = "raise" THEN f
       ELSE Result(f.state,
                   Return(IF hits = {} THEN None
                          ELSE users[CHOOSE i \in hits : \A j \in hits : j <= i]))

\* UserManager.find_user_by_email
FindUserByEmail(s, email, now) ==
    LET f == LazyFill(s, now)
    IN IF f.out.kind = "raise" THEN f
       ELSE Result(f.state, Return(FirstWithEmail(f.state.users_cache, email)))

\* CreateAndAddUser refetching the list before it appends
CreateAndAddUser_Refetch(s, name, email, now) ==
    LET c == CreateUser(s, name, email, now)
    IN IF c.out.kind = "raise" THEN c
       ELSE IF Truthy(c.out.val)
       THEN LET f == RefreshUsers(c.state, now)
            IN Result([f.state EXCEPT !.users_cache = Append(@, c.out.val)], c.out)
       ELSE Result(c.state, Return(None))

\* UserManager.create_and_add_user
CreateAndAddUser(s, name, email, now) ==
    LET c == CreateUser(s, name, email, now)
    IN IF c.out.kind = "raise" THEN c
       ELSE IF Truthy(c.out.val)
       THEN Result([c.state EXCEPT !.users_cache = Append(@, c.out.val)], c.out)
       ELSE Result(c.state, Return(None))

\* CountDomain storing 1 instead of adding 1
CountDomain_NoIncrement(domains, domain) ==
    IF \E i \in 1..Len(domains) : domains[i][1] = domain
    THEN [i \in 1..Len(domains) |->
            IF domains[i][1] = domain THEN <<domain, 1>> ELSE domains[i]]
    ELSE Append(domains, <<domain, 1>>)

\* domains[domain] = domains.get(domain, 0) + 1, on a dict kept in insertion order
CountDomain(domains, domain) ==
    IF \E i \in 1..Len(domains) : domains[i][1] = domain
    THEN [i \in 1..Len(domains) |->
            IF domains[i][1] = domain THEN <<domain, domains[i][2] + 1>> ELSE domains[i]]
    ELSE Append(domains, <<domain, 1>>)

\* the for loop of UserManager.get_user_summary
RECURSIVE EmailDomains(_, _)
EmailDomains(users, domains) ==
    IF users = <<>> THEN domains
    ELSE LET email == Get(Head(users), "email", <<>>)
         IN EmailDomains(Tail(users),
                         IF Contains(email, "@")
                         THEN CountDomain(domains, Split(email, "@")[2])
                         ELSE domains)

\* GetUserSummary taking the total before the lazy fill
GetUserSummary_TotalBeforeFill(s, now) ==
    LET f == LazyFill(s, now)
    IN IF f.out.kind = "raise" THEN f
       ELSE LET total == Len(s.users_cache)
                a == GetActiveUsers(f.state, now)
            IN IF a.out.kind = "raise" THEN a
               ELSE LET active == Len(a.out.val)
                        s2 == a.state
                    IN Result(s2, Return(
                         [total_users |-> total,
                          active_users |-> active,
                          inactive_users |-> total - active,
                          email_domains |-> EmailDomains(s2.users_cache, <<>>),
                          last_refresh |-> IF s2.last_fetch # None
                                           THEN IsoFormat(s2.last_fetch) ELSE None]))

\* UserManager.get_user_summary
GetUserSummary(s, now) ==
    LET f == LazyFill(s, now)
    IN IF f.out.kind = "raise" THEN f
       ELSE LET total == Len(f.state.users_cache)
                a == GetActiveUsers(f.state, now)
            IN IF a.out.kind = "raise" THEN a
               ELSE LET active == Len(a.out.val)
                        s2 == a.state
                    IN Result(s2, Return(
                         [total_users |-> total,
                          active_users |-> active,
                          inactive_users |-> total - active,
                          email_domains |-> EmailDomains(s2.users_cache, <<>>),
                          last_refresh |-> IF s2.last_fetch # None
                                           THEN IsoFormat(s2.last_fetch) ELSE None]))

\* ---------------------------------------------------------------- steps

\* APIClient("https://api.example.com", ...) and UserManager(client)
Init ==
    /\ session_data = <<>>
    /\ request_count = 0
    /\ request_lines = 0
    /\ users_cache = <<>>
    /\ last_fetch = None
    /\ clock = 0
    /\ transport = "simulated"
    /\ op = "init"
    /\ args = <<>>
    /\ ret = Return(None)
    /\ sent = 0

\* A call o(a) with result r: the program's state becomes r.state.
Call(o, a, r) ==
    /\ r.state.request_count <= MaxRequests
    /\ session_data' = r.state.session_data
    /\ request_count' = r.state.request_count
    /\ request_lines' = r.state.request_lines
    /\ users_cache' = r.state.users_cache
    /\ last_fetch' = r.state.last_fetch
    /\ op' = o
    /\ args' = a
    /\ ret' = r.out
    /\ sent' = r.state.request_lines - request_lines
    /\ UNCHANGED <<clock, transport>>

DoLogin ==
    \E u \in Usernames, p \in Passwords :
        \E r \in {Login(State, u, p, clock)} : Call("login", [username |-> u, password |-> p], r)

DoGetUsers == \E r \in {GetUsers(State, clock)} : Call("get_users", <<>>, r)

DoCreateUser ==
    \E n \in Names, e \in Emails :
        \E r \in {CreateUser(State, n, e, clock)} : Call("create_user", [name |-> n, email |-> e], r)

DoGetStats == \E r \in {GetStats(State)} : Call("get_stats", <<>>, r)

DoRefreshUsers == \E r \in {RefreshUsers(State, clock)} : Call("refresh_users", <<>>, r)

DoGetActiveUsers == \E r \in {GetActiveUsers(State, clock)} : Call("get_active_users", <<>>, r)

DoFindUserByEmail ==
    \E e \in Lookups :
        \E r \in {FindUserByEmail(State, e, clock)} : Call("find_user_by_email", [email |-> e], r)

DoCreateAndAddUser ==
    \E n \in Names, e \in Emails :
        \E r \in {CreateAndAddUser(State, n, e, clock)} :
            Call("create_and_add_user", [name |-> n, email |-> e], r)

DoGetUserSummary == \E r \in {GetUserSummary(State, clock)} : Call("get_user_summary", <<>>, r)

\* a direct call of APIClient._make_request
DoMakeRequest ==
    \E e \in Paths, m \in Methods, d \in Payloads :
        \E r \in {MakeRequest(State, e, m, d, clock)} :
            Call("_make_request", [endpoint |-> e, method |-> m, data |-> d],
                 Result(r.state, Return(r.out)))

\* Time passes between two calls.
Tick ==
    /\ clock < MaxClock
    /\ clock' = clock + 1
    /\ UNCHANGED <<session_data, request_count, request_lines, users_cache,
                   last_fetch, transport, op, args, ret, sent>>

\* The backend behind the client goes down or comes back between two calls.
BackendChange ==
    /\ transport' = IF transport = "simulated" THEN "failing" ELSE "simulated"
    /\ UNCHANGED <<session_data, request_count, request_lines, users_cache,
                   last_fetch, clock, op, args, ret, sent>>

Next ==
    \/ DoLogin
    \/ DoGetUsers
    \/ DoCreateUser
    \/ DoGetStats
    \/ DoRefreshUsers
    \/ DoGetActiveUsers
    \/ DoFindUserByEmail
    \/ DoCreateAndAddUser
    \/ DoGetUserSummary
    \/ Tick

\* The program as written: the simulated backend answers every request.
Spec == Init /\ [][Next]_vars

\* The program over a backend that may also answer with a non-success status.
SpecFault == Init /\ [][Next \/ BackendChange]_vars

\* The program with _make_request also called directly, on any request.
SpecRequest == Init /\ [][Next \/ DoMakeRequest]_vars

\* ---------------------------------------------------------------- properties

\* A step that is the call of operation o (time and the backend stand still
\* during a call).
CallStep(o) == op' = o /\ clock' = clock /\ transport' = transport

\* get_stats()["authenticated"] in the current state
Authenticated == GetStats(State).out.val.authenticated

LoginFailed == op = "login" /\ ret.kind = "return" /\ ret.val = FALSE

\* C1 (as stated): whenever login has returned false the session holds no token,
\* so get_stats reports authenticated false, also after an earlier successful login.
C1_FailedLoginLeavesNoToken == LoginFailed => ~Authenticated

\* C1 (amended): a login that returns false leaves session_data exactly as it
\* was before the call: it adds no token and it keeps the token of an earlier
\* successful login, so authenticated is the same after the call as before it.
C1_FailedLoginKeepsSession ==
    [][(CallStep("login") /\ LoginFailed') =>
         (session_data' = session_data /\ Authenticated' = Authenticated)]_vars

\* A failed login on a client that still holds the token of an earlier login.
C1_Witness == LoginFailed /\ Authenticated /\ request_count >= 2

\* what create_user / create_and_add_user returned, when it returned a user
Created == op \in {"create_user", "create_and_add_user"} /\ ret.kind = "return"

\* C2 (as stated): created ids are fresh, so no two resources of the cache
\* share an id.
C2_CacheIdsDistinct ==
    \A i, j \in 1..Len(users_cache) :
        i # j => users_cache[i].id # users_cache[j].id

\* C2 (amended): a created resource has active = TRUE and the fixed id 999,
\* which is the id of none of the three fixed records; two resources of the
\* cache share an id only if that id is 999 (both were created).
C2_CreatedIdIs999 ==
    /\ Created => /\ ret.val.id = 999
                  /\ ret.val.active = TRUE
                  /\ \A k \in 1..Len(FixedUsers) : FixedUsers[k].id # ret.val.id
    /\ \A i, j \in 1..Len(users_cache) :
           (i # j /\ users_cache[i].id = users_cache[j].id) => users_cache[i].id = 999

\* Two created resources in the cache after a refresh.
C2_Witness ==
    /\ op = "create_and_add_user" /\ ret.kind = "return"
    /\ Len(users_cache) = 5
    /\ users_cache[4].id = users_cache[5].id
    /\ users_cache[1].id = 1

\* the contact has no "@", or no "." in the part after its first "@"
NoAtOrNoDotAfterAt(contact) ==
    \/ ~Contains(contact, "@")
    \/ ~Contains(SubSeq(contact, Find(contact, "@") + 1, Len(contact)), ".")

\* C3: create_user with a contact that has no "@" or no "." after the "@"
\* raises ValueError and dispatches nothing: the request counter, the printed
\* request lines, the session and the manager's state are as before the call.
C3_InvalidContactRaisesBeforeDispatch ==
    [][(CallStep("create_user") /\ NoAtOrNoDotAfterAt(args'.email)) =>
         /\ ret'.kind = "raise" /\ ret'.exc = "ValueError"
         /\ UNCHANGED <<request_count, request_lines, session_data,
                        users_cache, last_fetch>>]_vars

\* A rejected create_user on a client that has already made requests.
C3_Witness ==
    /\ op = "create_user" /\ NoAtOrNoDotAfterAt(args.email)
    /\ Contains(args.email, "@")
    /\ ret.kind = "raise" /\ ret.exc = "ValueError"
    /\ request_count = 2 /\ Authenticated

\* C4: the request counter never decreases; get_users, login (successful or
\* not) and a create_user that passes validation add exactly 1, get_stats and
\* a create_user that fails validation add 0; get_stats()["requests_made"] is
\* always the number of requests dispatched (one printed line each).
C4_CounterCountsDispatches ==
    /\ [](GetStats(State).out.val.requests_made = request_lines)
    /\ [][/\ request_count' >= request_count
          /\ CallStep("get_users") => request_count' = request_count + 1
          /\ CallStep("login") => request_count' = request_count + 1
          /\ (CallStep("create_user") /\ ret'.kind = "return")
                => request_count' = request_count + 1
          /\ (CallStep("create_user") /\ ret'.kind = "raise" /\ ret'.exc = "ValueError")
                => request_count' = request_count
          /\ CallStep("get_stats") => request_count' = request_count]_vars

\* get_stats after a failed login, a get_users and a create_user.
C4_Witness ==
    /\ op = "get_stats"
    /\ ret.val.requests_made = 3 /\ request_lines = 3
    /\ ~ret.val.authenticated

\* C5: create_and_add_user gives the outcome of create_user; when that is a
\* user it is appended at the end of the cache, the entries before it and
\* last_fetch are unchanged, exactly one request was dispatched, and the next
\* get_active_users returns it; when it is a ValueError or an APIError the
\* same exception reaches the caller and the cache and last_fetch are unchanged.
C5_CreateAndAddAppends ==
    [][CallStep("create_and_add_user") =>
         LET c == CreateUser(State, args'.name, args'.email, clock)
         IN /\ ret' = c.out
            /\ last_fetch' = last_fetch
            /\ IF ret'.kind = "return"
               THEN /\ users_cache' = Append(users_cache, ret'.val)
                    /\ sent' = 1
                    /\ LET next == GetActiveUsers(State, clock)'
                       IN /\ next.state = State'
                          /\ next.out.val[Len(next.out.val)] = ret'.val
               ELSE /\ ret'.exc \in {"ValueError", "APIError"}
                    /\ users_cache' = users_cache]_vars

\* A user created and appended after the three fetched ones.
C5_Witness ==
    /\ op = "create_and_add_user" /\ ret.kind = "return"
    /\ Len(users_cache) = 4
    /\ users_cache[4] = ret.val
    /\ SubSeq(users_cache, 1, 3) = FixedUsers

\* C6: refresh_users dispatches one GET, replaces the cache with the list
\* get_users returns (the three fixed records) whatever the cache held, and
\* sets last_fetch to the current time; a refresh_users that follows a
\* refresh_users leaves the cache as it was.
C6_RefreshReplacesCache ==
    [][CallStep("refresh_users") =>
         /\ users_cache' = GetUsers(State, clock).out.val
         /\ users_cache' = FixedUsers
         /\ last_fetch' = Now(clock)
         /\ sent' = 1
         /\ (op = "refresh_users" => users_cache' = users_cache)]_vars

\* A refresh at a later time than the first request, on a used client.
C6_Witness ==
    /\ op = "refresh_users" /\ sent = 1
    /\ users_cache = FixedUsers
    /\ last_fetch = Now(1)
    /\ request_count = 3

\* the operations that fetch the users list
FetchOps == {"get_users", "refresh_users", "get_active_users",
             "find_user_by_email", "get_user_summary"}

\* the call of o dispatched a GET that was answered with a status other than 200
FetchFailed(o) == CallStep(o) /\ transport = "failing" /\ sent' > 0

\* C7 (as stated): when the GET is answered with a status other than 200,
\* get_users raises APIError and refresh_users, get_active_users,
\* find_user_by_email and get_user_summary let it reach the caller, without
\* storing anything in the cache.
C7_FetchErrorPropagates ==
    [][\A o \in FetchOps : FetchFailed(o) =>
         /\ ret'.kind = "raise" /\ ret'.exc = "APIError"
         /\ users_cache' = users_cache]_vars

\* C7 (amended): when the GET is answered with a status other than 200,
\* get_users catches its own APIError and returns the empty list; refresh_users
\* stores that empty list in the cache and sets last_fetch, and the lazy-fill
\* operations return normally on the empty cache: get_active_users the empty
\* list, find_user_by_email None, get_user_summary a summary of 0 users.
C7_FetchErrorSwallowed ==
    [][\A o \in FetchOps : FetchFailed(o) =>
         /\ ret'.kind = "return"
         /\ o = "get_users" => (ret'.val = <<>> /\ users_cache' = users_cache)
         /\ o # "get_users" => (users_cache' = <<>> /\ last_fetch' = Now(clock))
         /\ o = "refresh_users" => ret'.val = None
         /\ o = "get_active_users" => ret'.val = <<>>
         /\ o = "find_user_by_email" => ret'.val = None
         /\ o = "get_user_summary" =>
               (ret'.val.total_users = 0 /\ ret'.val.email_domains = <<>>)]_vars

\* A refresh over the failing backend that emptied a cache filled before.
C7_Witness ==
    /\ transport = "failing"
    /\ op = "refresh_users" /\ sent = 1 /\ ret = Return(None)
    /\ users_cache = <<>>
    /\ last_fetch # None
    /\ request_count >= 2

\* the operations that fill an empty cache before they read it
LazyOps == {"get_active_users", "find_user_by_email", "get_user_summary"}

\* C8: get_active_users, find_user_by_email and get_user_summary refresh the
\* cache exactly once (one GET, cache replaced, last_fetch set) when the cache
\* is empty at the call, and otherwise dispatch nothing and leave the cache
\* and last_fetch unchanged.
C8_LazyFillOnlyWhenEmpty ==
    [][\A o \in LazyOps : CallStep(o) =>
         IF users_cache = <<>>
         THEN /\ sent' = 1
              /\ request_count' = request_count + 1
              /\ users_cache' = FixedUsers
              /\ last_fetch' = Now(clock)
         ELSE /\ sent' = 0
              /\ UNCHANGED <<request_count, users_cache, last_fetch>>]_vars

\* A lookup that filled the empty cache with its own GET.
C8_Witness ==
    /\ op = "find_user_by_email" /\ sent = 1
    /\ users_cache = FixedUsers
    /\ last_fetch = Now(clock)

\* C9: get_user_summary on an empty cache dispatches exactly one GET and
\* returns total 3, active 2, inactive 1 and the domain counts
\* {"example.com": 3}.
C9_FirstSummary ==
    [][(CallStep("get_user_summary") /\ users_cache = <<>>) =>
         /\ sent' = 1
         /\ request_count' = request_count + 1
         /\ ret'.kind = "return"
         /\ ret'.val.total_users = 3
         /\ ret'.val.active_users = 2
         /\ ret'.val.inactive_users = 1
         /\ ret'.val.email_domains = << <<ExampleCom, 3>> >>]_vars

\* The first summary of a manager that had fetched nothing.
C9_Witness ==
    /\ op = "get_user_summary" /\ sent = 1
    /\ ret.val.total_users = 3
    /\ ret.val.last_refresh = IsoFormat(Now(clock))

AdminSecret == [username |-> "admin", password |-> "secret"]

\* C10: login never raises; it returns TRUE exactly for ("admin", "secret"),
\* and then get_stats reports authenticated; for any other pair it returns
\* FALSE, and a client that held no token before the call holds none after it.
C10_LoginResult ==
    [][CallStep("login") =>
         /\ ret'.kind = "return"
         /\ ret'.val = (args' = AdminSecret)
         /\ args' = AdminSecret => Authenticated'
         /\ (args' # AdminSecret /\ ~Authenticated) => ~Authenticated']_vars

\* A successful login after a failed one.
C10_Witness ==
    /\ op = "login" /\ args = AdminSecret
    /\ ret = Return(TRUE) /\ Authenticated
    /\ request_count = 2
    /\ session_data["token"][4] = 2

\* the request of the last call of _make_request and its response
ReqIs(a, path, method) == a.endpoint = path /\ a.method = method

HasNameAndEmail(d) == d # None /\ {"name", "email"} \subseteq DOMAIN d

IsAdminSecret(d) ==
    /\ d # None /\ {"username", "password"} \subseteq DOMAIN d
    /\ d.username = "admin" /\ d.password = "secret"

\* the four rows of the backend table that name a request
InTable(a) ==
    \/ ReqIs(a, UsersPath, "GET")
    \/ ReqIs(a, UsersPath, "POST") /\ HasNameAndEmail(a.data)
    \/ ReqIs(a, LoginPath, "POST")

\* the response r is the one the backend table gives for the request a
TableRow(a, r) ==
    /\ ReqIs(a, UsersPath, "GET") =>
          (r.status = 200 /\ "data" \in DOMAIN r /\ r.data = FixedUsers)
    /\ (ReqIs(a, UsersPath, "POST") /\ HasNameAndEmail(a.data)) =>
          /\ r.status = 201 /\ "data" \in DOMAIN r
          /\ r.data.id = 999 /\ r.data.active = TRUE
          /\ r.data.name = a.data.name /\ r.data.email = a.data.email
    /\ (ReqIs(a, LoginPath, "POST") /\ IsAdminSecret(a.data)) =>
          /\ r.status = 200 /\ "data" \in DOMAIN r
          /\ r.data.expires_in = 3600
    /\ (ReqIs(a, LoginPath, "POST") /\ ~IsAdminSecret(a.data)) =>
          (r.status = 401 /\ "error" \in DOMAIN r /\ r.error = "Invalid credentials")

NotFound(r) == r.status = 404 /\ "error" \in DOMAIN r /\ r.error = "Endpoint not found"

\* C11 (as stated): _make_request answers the requests of the backend table
\* as the table says and every other (path, method, payload) with status 404
\* and error "Endpoint not found".
C11_BackendTable ==
    [][CallStep("_make_request") =>
         /\ TableRow(args', ret'.val)
         /\ ~InTable(args') => NotFound(ret'.val)]_vars

\* C11 (amended): GET /users gives 200 with the 3-record list; POST /users
\* with a non-empty payload gives 201 with id 999, active TRUE and the
\* payload's name and email (None for a missing one); POST /auth/login with a
\* non-empty payload gives 200 with a token and expires_in 3600 for
\* admin/secret and 401 "Invalid credentials" otherwise.  Any other request
\* whose path begins with "/users" gives 400 "Invalid users endpoint", any
\* other whose path begins with "/auth" gives 400 "Invalid auth endpoint",
\* and only a path that begins with neither gives 404 "Endpoint not found".
C11_BackendTableWith400 ==
    [][CallStep("_make_request") =>
         LET a == args'
             r == ret'.val
             payload == a.data # None
             users == StartsWith(a.endpoint, UsersPath)
             auth == ~users /\ StartsWith(a.endpoint, AuthPath)
             created == ReqIs(a, UsersPath, "POST") /\ payload
             login == ReqIs(a, LoginPath, "POST") /\ payload
         IN /\ ret'.kind = "return"
            /\ ReqIs(a, UsersPath, "GET") =>
                  (r.status = 200 /\ r.data = FixedUsers)
            /\ created =>
                  /\ r.status = 201 /\ r.data.id = 999 /\ r.data.active = TRUE
                  /\ r.data.name = Get(a.data, "name", None)
                  /\ r.data.email = Get(a.data, "email", None)
            /\ (login /\ IsAdminSecret(a.data)) =>
                  /\ r.status = 200 /\ r.data.expires_in = 3600
                  /\ r.data.token = session_data'["token"]
            /\ (login /\ ~IsAdminSecret(a.data)) =>
                  (r.status = 401 /\ r.error = "Invalid credentials")
            /\ (users /\ ~ReqIs(a, UsersPath, "GET") /\ ~created) =>
                  (r.status = 400 /\ r.error = "Invalid users endpoint")
            /\ (auth /\ ~login) =>
                  (r.status = 400 /\ r.error = "Invalid auth endpoint")
            /\ (~users /\ ~auth) => NotFound(r)
            /\ sent' = 1]_vars

\* A request outside the table, under "/users", answered with 400.
C11_Witness ==
    /\ op = "_make_request"
    /\ args.endpoint = UsersPath \o <<"/", "5">> /\ args.method = "GET"
    /\ ret.val.status = 400 /\ ret.val.error = "Invalid users endpoint"

\* the users whose active flag is true, in the order of the list
RECURSIVE ActiveOnes(_)
ActiveOnes(users) ==
    IF users = <<>> THEN <<>>
    ELSE (IF Head(users).active THEN <<Head(users)>> ELSE <<>>) \o ActiveOnes(Tail(users))

\* C12: get_active_users returns exactly the users of the cache whose active
\* flag is true, in cache order, and leaves the contents of a filled cache as
\* they were; called right after refresh_users it returns the fixed records
\* with ids 1 and 3, in that order.
C12_ActiveInCacheOrder ==
    [][CallStep("get_active_users") =>
         /\ ret'.kind = "return"
         /\ ret'.val = ActiveOnes(users_cache')
         /\ \A i \in 1..Len(ret'.val) : ret'.val[i].active
         /\ users_cache # <<>> => users_cache' = users_cache
         /\ op = "refresh_users" =>
               /\ ret'.val = <<FixedUsers[1], FixedUsers[3]>>
               /\ <<ret'.val[1].id, ret'.val[2].id>> = <<1, 3>>
               /\ users_cache' = FixedUsers]_vars

\* The active users of a cache of the three fixed records and a created one.
C12_Witness ==
    /\ op = "get_active_users" /\ sent = 0
    /\ Len(users_cache) = 4
    /\ Len(ret.val) = 3
    /\ <<ret.val[1].id, ret.val[2].id, ret.val[3].id>> = <<1, 3, 999>>

\* the sum of the counts of a domains dict
RECURSIVE SumCounts(_)
SumCounts(domains) ==
    IF domains = <<>> THEN 0 ELSE Head(domains)[2] + SumCounts(Tail(domains))

\* the step ran refresh_users, called directly or by a lazy fill: a manager
\* operation that dispatched a GET
RefreshRan ==
    \E o \in {"refresh_users"} \cup LazyOps : CallStep(o) /\ sent' > 0

\* what get_user_summary returns when called in the current state, against
\* the cache it leaves
SummaryAgrees ==
    LET r == GetUserSummary(State, clock)
        v == r.out.val
        cache == r.state.users_cache
    IN /\ r.out.kind = "return"
       /\ v.total_users = Len(cache)
       /\ v.active_users = Cardinality({i \in 1..Len(cache) : cache[i].active})
       /\ v.inactive_users = v.total_users - v.active_users
       /\ v.inactive_users >= 0
       /\ SumCounts(v.email_domains) = v.total_users
       /\ (v.last_refresh = None) = (r.state.last_fetch = None)

\* C13: in every reachable state get_user_summary returns total = the cache
\* length, active = the number of cached users with active true, inactive =
\* total - active >= 0 and domain counts that sum to total; its last_refresh
\* is None exactly when last_fetch is None, and last_fetch is None at the
\* start, is set by every refresh (explicit or lazy) and is changed by nothing
\* else, so last_refresh is None exactly when no refresh has ever happened.
C13_SummaryCounts ==
    /\ last_fetch = None
    /\ []SummaryAgrees
    /\ [][/\ RefreshRan => last_fetch' # None
          /\ ~RefreshRan => last_fetch' = last_fetch]_vars

\* A summary of two created users on a manager that never refreshed.
C13_Witness ==
    /\ op = "get_user_summary" /\ sent = 0
    /\ ret.val.total_users = 2 /\ ret.val.active_users = 2
    /\ Len(ret.val.email_domains) = 2
    /\ ret.val.last_refresh = None

\* C14: find_user_by_email returns the first user in cache order whose email
\* equals the argument, and None when there is none (so None, not an
\* exception, for "missing@nowhere.com"); it never touches the session, and on
\* a filled cache it dispatches nothing and changes no state.
C14_FirstMatchOrNone ==
    [][CallStep("find_user_by_email") =>
         LET cache == users_cache'
             hits == {i \in 1..Len(cache) : cache[i].email = args'.email}
         IN /\ ret'.kind = "return"
            /\ IF hits = {} THEN ret'.val = None
               ELSE \E i \in hits : (\A j \in hits : i <= j) /\ ret'.val = cache[i]
            /\ args'.email = MissingEmail => ret'.val = None
            /\ session_data' = session_data
            /\ users_cache # <<>> =>
                  UNCHANGED <<request_count, request_lines, users_cache, last_fetch>>]_vars

\* A lookup that matches two cached users and returns the first of them.
C14_Witness ==
    /\ op = "find_user_by_email" /\ args.email = DavidEmail
    /\ Len(users_cache) = 2
    /\ users_cache[1].email = DavidEmail /\ users_cache[2].email = DavidEmail
    /\ users_cache[1] # users_cache[2]
    /\ ret.val = users_cache[1]

\* the cache holds users and the manager has never refreshed: the states
\* from a create_and_add_user on the empty cache until a refresh_users
CreatedOnly == users_cache # <<>> /\ last_fetch = None

FixedEmails == {FixedUsers[k].email : k \in 1..Len(FixedUsers)}

\* get_active_users, find_user_by_email and get_user_summary, called in the
\* current state, dispatch nothing, change nothing and see created users only
ReadsSeeCreatedOnly ==
    LET a == GetActiveUsers(State, clock)
        g == GetUserSummary(State, clock)
    IN /\ \A i \in 1..Len(users_cache) : users_cache[i].id = 999
       /\ a.state = State /\ a.out = Return(users_cache)
       /\ g.state = State
       /\ g.out.val.total_users = Len(users_cache)
       /\ g.out.val.last_refresh = None
       /\ \A e \in Lookups \cup FixedEmails :
             LET f == FindUserByEmail(State, e, clock)
             IN /\ f.state = State
                /\ f.out.kind = "return"
                /\ e \in FixedEmails => f.out.val = None

\* C15: a create_and_add_user that succeeds on an empty cache that was never
\* refreshed leaves a cache of the created user alone, with last_fetch still
\* None; from then until a refresh_users, get_active_users, find_user_by_email
\* and get_user_summary dispatch no request and read that cache: the summary
\* has total = the cache length (1 after the first create) and last_refresh
\* None, and the fixed records' emails are not found.
C15_CreateBeforeFirstFetch ==
    /\ [][(CallStep("create_and_add_user") /\ users_cache = <<>>
              /\ last_fetch = None /\ ret'.kind = "return") =>
            (users_cache' = <<ret'.val>> /\ last_fetch' = None /\ CreatedOnly')]_vars
    /\ [](CreatedOnly => ReadsSeeCreatedOnly)
    /\ []((CreatedOnly /\ op = "get_user_summary" /\ Len(users_cache) = 1) =>
             (sent = 0 /\ ret.val.total_users = 1 /\ ret.val.last_refresh = None))
    /\ []((CreatedOnly /\ op = "find_user_by_email" /\ args.email \in FixedEmails) =>
             (sent = 0 /\ ret.val = None))

\* A summary of the one created user, on a manager that has fetched nothing.
C15_Witness ==
    /\ op = "get_user_summary" /\ sent = 0
    /\ Len(users_cache) = 1 /\ users_cache[1].id = 999
    /\ last_fetch = None
    /\ ret.val.total_users = 1 /\ ret.val.last_refresh = None
    /\ request_count = 1

====
